---- MODULE Spec2Model ----
(***************************************************************************)
(* A model of the users CRUD service: the validation and sanitization      *)
(* functions of models/User.ts, the five operations of UserService.ts, the *)
(* handlers of routes/userRoutes.ts and the users table of init.sql.       *)
(*                                                                         *)
(* Strings are sequences of one-character strings.  A JavaScript value is  *)
(* a record [t, s, n]: its type tag, its characters when it is a string    *)
(* and its value when it is a number.                                      *)
(***************************************************************************)
EXTENDS Integers, Sequences, FiniteSets, TLC

VARIABLES db, nextId, now, req, vIn, vOut

vars == <<db, nextId, now, req, vIn, vOut>>

-----------------------------------------------------------------------------
(* Strings *)

UpperChars == <<"A","B","C","D","E","F","G","H","I","J","K","L","M",
                "N","O","P","Q","R","S","T","U","V","W","X","Y","Z">>

LowerChars == <<"a","b","c","d","e","f","g","h","i","j","k","l","m",
                "n","o","p","q","r","s","t","u","v","w","x","y","z">>

Digits == <<"0","1","2","3","4","5","6","7","8","9">>

IsSpace(c) == c = " "

IsDigit(c) == \E i \in 1..10 : Digits[i] = c

DigitVal(c) == (CHOOSE i \in 1..10 : Digits[i] = c) - 1

LowerChar(c) ==
  IF \E i \in 1..26 : UpperChars[i] = c
  THEN LowerChars[CHOOSE i \in 1..26 : UpperChars[i] = c]
  ELSE c

\* String.prototype.toLowerCase
toLowerCase(s) == [i \in 1..Len(s) |-> LowerChar(s[i])]

RECURSIVE TrimLeft(_)
TrimLeft(s) ==
  IF s # <<>> /\ IsSpace(Head(s)) THEN TrimLeft(Tail(s)) ELSE s

RECURSIVE TrimRight(_)
TrimRight(s) ==
  IF s # <<>> /\ IsSpace(s[Len(s)]) THEN TrimRight(SubSeq(s, 1, Len(s) - 1)) ELSE s

\* String.prototype.trim
trim(s) == TrimRight(TrimLeft(s))

Rep(n, c) == [i \in 1..n |-> c]

RECURSIVE DigitsValue(_, _)
DigitsValue(s, acc) ==
  IF s = <<>> THEN acc ELSE DigitsValue(Tail(s), 10 * acc + DigitVal(Head(s)))

RECURSIVE DigitPrefix(_)
DigitPrefix(s) ==
  IF s # <<>> /\ IsDigit(Head(s)) THEN <<Head(s)>> \o DigitPrefix(Tail(s)) ELSE <<>>

RECURSIVE NatToString(_)
NatToString(n) ==
  IF n < 10 THEN <<Digits[n + 1]>> ELSE NatToString(n \div 10) \o <<Digits[(n % 10) + 1]>>

-----------------------------------------------------------------------------
(* JavaScript values *)

Undefined == [t |-> "undefined", s |-> <<>>, n |-> 0]
Null      == [t |-> "null",      s |-> <<>>, n |-> 0]
NaN       == [t |-> "nan",       s |-> <<>>, n |-> 0]
Str(s)    == [t |-> "string",    s |-> s,    n |-> 0]
Num(n)    == [t |-> "number",    s |-> <<>>, n |-> n]

\* typeof v === 'number' holds of NaN too
IsNumber(v) == v.t \in {"number", "nan"}

\* ToBoolean: undefined, null, NaN, 0 and '' are falsy
Truthy(v) ==
  \/ v.t = "string" /\ v.s # <<>>
  \/ v.t = "number" /\ v.n # 0

\* parseInt(string): leading white space, an optional sign, the longest
\* prefix of digits; NaN when there is no digit
parseInt(s) ==
  LET t    == TrimLeft(s)
      neg  == t # <<>> /\ Head(t) = "-"
      body == IF t # <<>> /\ Head(t) \in {"-", "+"} THEN Tail(t) ELSE t
      ds   == DigitPrefix(body)
  IN  IF ds = <<>> THEN NaN
      ELSE Num(IF neg THEN 0 - DigitsValue(ds, 0) ELSE DigitsValue(ds, 0))

\* Number(value) for the values of the model: a string converts when the
\* whole of it, trimmed, is an optionally signed run of digits ('' is 0)
ToNumber(v) ==
  CASE v.t = "number"    -> v
    [] v.t = "nan"       -> NaN
    [] v.t = "null"      -> Num(0)
    [] v.t = "undefined" -> NaN
    [] v.t = "string"    ->
         LET t    == trim(v.s)
             neg  == t # <<>> /\ Head(t) = "-"
             body == IF t # <<>> /\ Head(t) \in {"-", "+"} THEN Tail(t) ELSE t
         IN  IF t = <<>> THEN Num(0)
             ELSE IF body # <<>> /\ DigitPrefix(body) = body
                  THEN Num(IF neg THEN 0 - DigitsValue(body, 0) ELSE DigitsValue(body, 0))
                  ELSE NaN

\* Math.floor(Number(v)); the numbers of the model are integers
FloorNumber(v) == ToNumber(v)

\* `${v}` for a number or undefined
TemplateString(v) ==
  CASE v.t = "number" ->
         IF v.n < 0 THEN <<"-">> \o NatToString(0 - v.n) ELSE NatToString(v.n)
    [] v.t = "nan"    -> <<"N","a","N">>
    [] OTHER          -> <<"u","n","d","e","f","i","n","e","d">>

-----------------------------------------------------------------------------
(* models/User.ts *)

NAME_MIN_LENGTH  == 2
NAME_MAX_LENGTH  == 100
EMAIL_MAX_LENGTH == 255
AGE_MIN          == 0
AGE_MAX          == 100
DEFAULT_PAGE     == 1
DEFAULT_LIMIT    == 10
MAX_LIMIT        == 100

\* A request body: the set of its keys and the values of name, email and
\* age (Undefined for a key that is absent).  "other" stands for any key
\* the service does not know.
Body(keys, name, email, age) ==
  [keys |-> keys, name |-> name, email |-> email, age |-> age]

EmptyBody == Body({}, Undefined, Undefined, Undefined)

\* The age branch of validateUserData as written: the upper bound compares
\* with AGE_MIN
AgeErrors(age) ==
  IF ~Truthy(age) THEN <<"Age is required.">>
  ELSE IF ~IsNumber(age) THEN <<"Age must be a number">>
  ELSE IF age.n < AGE_MIN THEN <<"Age must be at least 0">>
  ELSE IF age.n > AGE_MIN THEN <<"Age must be no more than 0 characters long">>
  ELSE <<>>

NameErrors(name) ==
  IF ~Truthy(name) THEN <<"Name is required.">>
  ELSE IF name.t # "string" THEN <<"Name must be a string">>
  ELSE IF Len(name.s) < NAME_MIN_LENGTH THEN <<"Name must be at least 2">>
  ELSE IF Len(name.s) > NAME_MAX_LENGTH
       THEN <<"Name must be no more than 100 characters long">>
  ELSE <<>>

EmailErrors(email) ==
  IF ~Truthy(email) THEN <<"Email is required.">>
  ELSE IF email.t # "string" THEN <<"Email must be a string">>
  ELSE IF Len(email.s) > EMAIL_MAX_LENGTH
       THEN <<"Email must be no more than 255 characters long">>
  ELSE <<>>

validateUserData(userData, isUpdate) ==
  (IF ~isUpdate \/ "name" \in userData.keys THEN NameErrors(userData.name) ELSE <<>>)
  \o (IF ~isUpdate \/ "email" \in userData.keys THEN EmailErrors(userData.email) ELSE <<>>)
  \o (IF ~isUpdate \/ "age" \in userData.keys THEN AgeErrors(userData.age) ELSE <<>>)

\* sanitizeUserData calls .trim() on a truthy name or email: a truthy value
\* that is not a string has no such method and the call throws a TypeError
sanitizeThrows(userData) ==
  \/ "name" \in userData.keys /\ Truthy(userData.name) /\ userData.name.t # "string"
  \/ "email" \in userData.keys /\ Truthy(userData.email) /\ userData.email.t # "string"

sanitizeUserData(userData) ==
  [userData EXCEPT
     !.name  = IF "name" \in userData.keys /\ Truthy(@) /\ @.t = "string"
               THEN Str(trim(@.s)) ELSE @,
     !.email = IF "email" \in userData.keys /\ Truthy(@) /\ @.t = "string"
               THEN Str(toLowerCase(trim(@.s))) ELSE @,
     !.age   = IF "age" \in userData.keys /\ Truthy(@) THEN FloorNumber(@) ELSE @]

-----------------------------------------------------------------------------
(* init.sql: the users table *)

JohnDoe      == <<"J","o","h","n"," ","D","o","e">>
JohnEmail    == <<"j","o","h","n","@","j","o","h","n",".","c","o","m">>
JaneSmith    == <<"J","a","n","e"," ","S","m","i","t","h">>
JaneEmail    == <<"j","a","n","e","@","j","a","n","e",".","c","o","m">>
BobBobertson == <<"B","o","b"," ","B","o","b","e","r","t","s","o","n">>
BobEmail     == <<"b","o","b","@","b","o","b",".","c","o","m">>

\* The time of the statement that inserts the sample rows
SeedTime == 0

Row(name, email, age, created, updated) ==
  [name |-> name, email |-> email, age |-> age,
   created_at |-> created, updated_at |-> updated]

\* INSERT INTO users (name, email, age) VALUES ...: one statement, so the
\* three rows take the same DEFAULT NOW()
SeedRows ==
  (1 :> Row(JohnDoe, JohnEmail, Num(30), SeedTime, SeedTime))
  @@ (2 :> Row(JaneSmith, JaneEmail, Num(25), SeedTime, SeedTime))
  @@ (3 :> Row(BobBobertson, BobEmail, Num(35), SeedTime, SeedTime))

\* The code of a query that fails for want of a connection
ConnectionFailure == "ECONNREFUSED"

\* Fault: the email column without its UNIQUE constraint
NoUniqueViolation(t, id, row) == FALSE

\* email VARCHAR(255) NOT NULL UNIQUE: would table t, with row id set to
\* row, hold the email of row twice?
UniqueViolation(t, id, row) ==
  \E j \in DOMAIN t : j # id /\ t[j].email = row.email

\* name VARCHAR(100) NOT NULL CHECK (LENGTH(name) >= 2),
\* age INTEGER CHECK (age >= 0 AND age <= 100), email VARCHAR(255)
CheckViolation(row) ==
  \/ Len(row.name) < 2
  \/ row.age.t = "number" /\ (row.age.n < 0 \/ row.age.n > 100)

TooLong(row) == Len(row.name) > 100 \/ Len(row.email) > 255

\* The SQLSTATE the table's constraints raise for writing row as row id of
\* table t ("" when the write is accepted)
ConstraintError(t, id, row) ==
  IF TooLong(row) THEN "22001"
  ELSE IF CheckViolation(row) THEN "23514"
  ELSE IF UniqueViolation(t, id, row) THEN "23505"
  ELSE ""

\* Date.prototype.toISOString: the text of a time
toISOString(t) == [iso |-> t]

userToResponse(id, row) ==
  [id |-> id, name |-> row.name, email |-> row.email, age |-> row.age,
   created_at |-> toISOString(row.created_at),
   updated_at |-> toISOString(row.updated_at)]

NoUser ==
  [id |-> 0, name |-> <<>>, email |-> <<>>, age |-> Undefined,
   created_at |-> toISOString(0), updated_at |-> toISOString(0)]

-----------------------------------------------------------------------------
(* Requests *)

\* The number of requests the service handles, any of them concurrently
MaxReq == 2

Req == 1..MaxReq

NoQuery ==
  [page |-> Undefined, limit |-> Undefined, name |-> Undefined,
   email |-> Undefined, minAge |-> Undefined, maxAge |-> Undefined,
   sortBy |-> Undefined, sortOrder |-> Undefined]

NoPagination ==
  [page |-> 0, limit |-> 0, total |-> 0, totalPages |-> 0,
   hasNext |-> FALSE, hasPrev |-> FALSE]

NoListParams ==
  [page |-> 0, limit |-> 0, offset |-> 0, total |-> 0,
   queryValues |-> <<>>, snapshot |-> <<>>, quiet |-> FALSE]

\* A request: what it was sent (op, rawId, body, query), where its handler
\* stands (pc), the handler's local variables, the statements it has handed
\* to db.query (sql), how findUserByEmail's query went (lookup), and the
\* response once sent
IdleReq ==
  [op |-> "none", pc |-> "idle", rawId |-> <<>>, body |-> EmptyBody,
   query |-> NoQuery, sdata |-> EmptyBody, userId |-> 0,
   existingEmail |-> <<>>, txTime |-> 0, sqlstate |-> "", lp |-> NoListParams,
   sql |-> <<>>, lookup |-> "",
   status |-> 0, keys |-> {}, success |-> FALSE, message |-> "",
   error |-> <<>>, user |-> NoUser, users |-> <<>>,
   pagination |-> NoPagination]

\* Requests are numbered in the order they arrive
CanStart(r) ==
  /\ req[r].pc = "idle"
  /\ \A j \in Req : j < r => req[j].pc # "idle"

\* The messages of the errors the service throws
ErrValidation(errors) == <<"Validation failed: ">> \o errors
ErrExists     == <<"User with this email already exists">>
ErrCreate     == <<"Failed to create user">>
ErrUpdate     == <<"Failed to update user">>
ErrDelete     == <<"Failed to delete user">>
ErrFetchUser  == <<"Failed to fetch user">>
ErrFetchUsers == <<"Failed to fetch users">>
ErrTypeError  == <<"sanitized.name.trim is not a function">>

\* error.message.includes(text), for the two texts the handlers look for
includes(message, text) ==
  CASE text = "Validation failed" -> Head(message) = "Validation failed: "
    [] text = "already exists"    -> Head(message) = "User with this email already exists"
    [] OTHER                      -> FALSE

\* res.status(status).json({success: false, message, error})
Failure(q, status, message, error) ==
  [q EXCEPT !.pc = "done", !.status = status, !.success = FALSE,
            !.keys = {"success", "message", "error"},
            !.message = message, !.error = error]

\* res.status(status).json({success: true, message, data})
Success(q, status, message, user) ==
  [q EXCEPT !.pc = "done", !.status = status, !.success = TRUE,
            !.keys = {"success", "message", "data"},
            !.message = message, !.user = user]

\* The catch blocks of POST / and PUT /:id
CatchWrite(q, message) ==
  IF includes(message, "Validation failed")
  THEN Failure(q, 400, "Validation failed", message)
  ELSE IF includes(message, "already exists")
  THEN Failure(q, 409, "User with this email already exists", message)
  ELSE Failure(q, 500, "Internal server error", message)

\* The catch blocks of GET /, GET /:id and DELETE /:id
CatchRead(q, message) == Failure(q, 500, "Internal server error", message)

InvalidId(q) ==
  Failure(q, 400, "Invalid user ID. Must be a positive integer.", <<"INVALID_USER_ID">>)

\* Fault: a handler that answers a missing row as an error
NotFoundAsError(q) == Failure(q, 500, "Internal server error", <<"USER_NOT_FOUND">>)

NotFound(q) == Failure(q, 404, "User not found", <<"USER_NOT_FOUND">>)

\* isNaN(userId) || userId <= 0
BadUserId(userId) == userId.t = "nan" \/ userId.n <= 0

-----------------------------------------------------------------------------
(* The statements the service hands to db.query *)

\* A statement: its text and its bound values.  The text is fixed but for
\* the fragments the code assembles into it: the columns of an UPDATE's SET
\* list, the conditions of a WHERE clause (column, operator and placeholder)
\* and, after ORDER BY, the sortBy and sortOrder of the request.
Statement(text, set, where, orderBy, values) ==
  [text |-> text, set |-> set, where |-> where, orderBy |-> orderBy,
   values |-> values]

InsertUser(sd) ==
  Statement("INSERT INTO users (name, email, age, created_at, updated_at) VALUES ($1, $2, $3, NOW(), NOW()) RETURNING *",
            <<>>, <<>>, <<>>,
            <<sd.name, sd.email, IF Truthy(sd.age) THEN sd.age ELSE Null>>)

SelectById(id) ==
  Statement("SELECT * FROM users WHERE id = $1", <<>>, <<>>, <<>>, <<Num(id)>>)

SelectByEmail(email) ==
  Statement("SELECT * FROM users WHERE email = $1", <<>>, <<>>, <<>>, <<Str(email)>>)

DeleteById(id) ==
  Statement("DELETE FROM users WHERE id = $1 RETURNING id", <<>>, <<>>, <<>>, <<Num(id)>>)

\* updateFields and values of updateUser
UpdateUser(sd, id) ==
  LET present(v, x) == IF v.t # "undefined" THEN <<x>> ELSE <<>>
  IN  Statement("UPDATE users SET ... WHERE id = $n RETURNING *",
                present(sd.name, "name = $n") \o present(sd.email, "email = $n")
                  \o present(sd.age, "age = $n") \o <<"updated_at = NOW()">>,
                <<>>, <<>>,
                present(sd.name, sd.name) \o present(sd.email, sd.email)
                  \o present(sd.age, sd.age) \o <<Num(id)>>)

\* db.query is called with the statement
Issue(q, statement) == [q EXCEPT !.sql = Append(@, statement)]

-----------------------------------------------------------------------------
(* What the clients send *)

AnnLee       == <<"A","n","n"," ","L","e","e">>
AnnEmailRaw  == <<"A","N","N","@","E","x","a","m","p","l","e",".","c","o","m"," ">>
AnnEmail     == <<"a","n","n","@","e","x","a","m","p","l","e",".","c","o","m">>
AlRaw        == <<" ","A","l"," ">>
AlEmail      == <<"a","l","@","x",".","i","o">>
JaneEmailRaw == <<" ","J","A","N","E","@","j","a","n","e",".","c","o","m">>

\* The :id of a path: a stored id, a stored id with a letter after it, an
\* id no row has, and 0
PathIds == {<<"1">>, <<"2","x">>, <<"9">>, <<"0">>}

CreateBodies ==
  { Body({"name", "email", "age"}, Str(AnnLee), Str(AnnEmailRaw), Num(29)),
    Body({"name", "email"}, Str(AnnLee), Str(AnnEmail), Undefined),
    Body({"name"}, Str(AnnLee), Undefined, Undefined) }

UpdateBodies ==
  { Body({"name"}, Str(AlRaw), Undefined, Undefined),
    Body({"email"}, Undefined, Str(AlEmail), Undefined),
    Body({"email"}, Undefined, Str(JaneEmailRaw), Undefined),
    Body({"age"}, Undefined, Undefined, Num(29)),
    Body({"other"}, Undefined, Undefined, Undefined),
    Body({"name"}, Num(5), Undefined, Undefined),
    EmptyBody }

-----------------------------------------------------------------------------
(* UserService.ts and userRoutes.ts: create *)

\* Fault: a lookup that never finds a row
NeverFound(t, email, fail) == FALSE

\* findUserByEmail: the row with this email, or null; a query that fails is
\* caught and null returned
findUserByEmail(t, email, fail) ==
  IF fail THEN FALSE ELSE \E j \in DOMAIN t : t[j].email = email

\* INSERT INTO users (name, email, age, created_at, updated_at)
\* VALUES ($1, $2, $3, NOW(), NOW()), with $3 = sanitizedData.age || null
InsertedRow(sd, t) ==
  Row(sd.name.s, sd.email.s, IF Truthy(sd.age) THEN sd.age ELSE Null, t, t)

\* POST /: the handler up to its first query, and createUser with it
PostStart(q, t, fail) ==
  IF ~Truthy(q.body.name) \/ ~Truthy(q.body.email)
  THEN [q EXCEPT !.pc = "done", !.status = 400, !.success = FALSE,
                 !.keys = {"success", "message", "errors"},
                 !.message = "Name and email are required"]
  ELSE IF sanitizeThrows(q.body) THEN CatchWrite(q, ErrTypeError)
  ELSE LET sd   == sanitizeUserData(q.body)
           errs == validateUserData(sd, FALSE)
       IN  IF errs # <<>> THEN CatchWrite([q EXCEPT !.sdata = sd], ErrValidation(errs))
           ELSE LET ql == [Issue(q, SelectByEmail(sd.email.s)) EXCEPT
                             !.sdata = sd,
                             !.lookup = IF fail THEN "failed" ELSE "answered"]
                IN  IF findUserByEmail(t, sd.email.s, fail)
                    THEN CatchWrite(ql, ErrExists)
                    ELSE [ql EXCEPT !.pc = "begin"]

\* POST /users.  The INSERT is two steps of the database: the statement
\* starts, which fixes its NOW(), and the row is written.
Post(r) ==
  /\ req[r].op \in {"none", "create"}
  /\ CASE req[r].pc = "idle" ->
            /\ CanStart(r)
            /\ \E body \in CreateBodies, fail \in BOOLEAN :
                 req' = [req EXCEPT ![r] =
                           PostStart([IdleReq EXCEPT !.op = "create", !.body = body],
                                     db, fail)]
            /\ UNCHANGED <<db, nextId, now>>
       [] req[r].pc = "begin" ->
            /\ \E fail \in BOOLEAN :
                 IF fail
                 THEN /\ req' = [req EXCEPT ![r] =
                                   CatchWrite([Issue(@, InsertUser(@.sdata)) EXCEPT
                                                 !.sqlstate = ConnectionFailure],
                                              ErrCreate)]
                      /\ UNCHANGED now
                 ELSE /\ now' = now + 1
                      /\ req' = [req EXCEPT ![r] =
                                   [Issue(@, InsertUser(@.sdata)) EXCEPT
                                      !.pc = "apply", !.txTime = now + 1]]
            /\ UNCHANGED <<db, nextId>>
       [] req[r].pc = "apply" ->
            LET new  == InsertedRow(req[r].sdata, req[r].txTime)
                code == ConstraintError(db, nextId, new)
            IN  /\ nextId' = nextId + 1
                /\ IF code # ""
                   THEN /\ req' = [req EXCEPT ![r] =
                                     CatchWrite([@ EXCEPT !.sqlstate = code], ErrCreate)]
                        /\ UNCHANGED db
                   ELSE /\ db' = db @@ (nextId :> new)
                        /\ req' = [req EXCEPT ![r] =
                                     Success(@, 201, "User created successfully",
                                             userToResponse(nextId, new))]
                /\ UNCHANGED now
       [] OTHER -> FALSE
  /\ UNCHANGED <<vIn, vOut>>

-----------------------------------------------------------------------------
(* read one, delete *)

\* GET /:id with getUserById
GetById(r) ==
  /\ CanStart(r)
  /\ \E rawId \in PathIds, fail \in BOOLEAN :
       LET q      == [IdleReq EXCEPT !.op = "get", !.rawId = rawId]
           userId == parseInt(rawId)
           qi     == Issue([q EXCEPT !.userId = userId.n], SelectById(userId.n))
       IN  req' = [req EXCEPT ![r] =
             IF BadUserId(userId) THEN InvalidId(q)
             ELSE IF fail
             THEN CatchRead([qi EXCEPT !.sqlstate = ConnectionFailure], ErrFetchUser)
             ELSE IF userId.n \notin DOMAIN db THEN NotFound(qi)
             ELSE Success(qi, 200, "User retrieved successfully",
                          userToResponse(userId.n, db[userId.n]))]
  /\ UNCHANGED <<db, nextId, now, vIn, vOut>>

\* DELETE FROM users WHERE id = $1 RETURNING id
DeletedFrom(t, id) == [j \in DOMAIN t \ {id} |-> t[j]]

\* DELETE /:id with deleteUser
Delete(r) ==
  /\ CanStart(r)
  /\ \E rawId \in PathIds, fail \in BOOLEAN :
       LET q      == [IdleReq EXCEPT !.op = "delete", !.rawId = rawId]
           userId == parseInt(rawId)
           qi     == Issue([q EXCEPT !.userId = userId.n], DeleteById(userId.n))
       IN  IF BadUserId(userId)
           THEN req' = [req EXCEPT ![r] = InvalidId(q)] /\ UNCHANGED db
           ELSE IF fail
           THEN /\ req' = [req EXCEPT ![r] =
                             CatchRead([qi EXCEPT !.sqlstate = ConnectionFailure],
                                       ErrDelete)]
                /\ UNCHANGED db
           ELSE IF userId.n \notin DOMAIN db
           THEN req' = [req EXCEPT ![r] = NotFound(qi)] /\ UNCHANGED db
           ELSE /\ db' = DeletedFrom(db, userId.n)
                /\ req' = [req EXCEPT ![r] =
                             Success(qi, 200, "User deleted successfully", NoUser)]
  /\ UNCHANGED <<nextId, now, vIn, vOut>>

-----------------------------------------------------------------------------
(* update *)

\* Fault: an UPDATE that sets created_at as well
UpdatedRowAndCreated(old, sd, t) ==
  [old EXCEPT !.name       = IF sd.name.t # "undefined" THEN sd.name.s ELSE @,
              !.email      = IF sd.email.t # "undefined" THEN sd.email.s ELSE @,
              !.age        = IF sd.age.t # "undefined" THEN sd.age ELSE @,
              !.created_at = t,
              !.updated_at = t]

\* Fault: an UPDATE without updated_at = NOW(), and no trigger
UpdatedRowStale(old, sd, t) ==
  [old EXCEPT !.name       = IF sd.name.t # "undefined" THEN sd.name.s ELSE @,
              !.email      = IF sd.email.t # "undefined" THEN sd.email.s ELSE @,
              !.age        = IF sd.age.t # "undefined" THEN sd.age ELSE @]

\* UPDATE users SET <the fields of sanitizedData that are not undefined>,
\* updated_at = NOW() WHERE id = $n, and the trigger
\* update_updated_at_column, which sets NEW.updated_at = NOW() as well
UpdatedRow(old, sd, t) ==
  [old EXCEPT !.name       = IF sd.name.t # "undefined" THEN sd.name.s ELSE @,
              !.email      = IF sd.email.t # "undefined" THEN sd.email.s ELSE @,
              !.age        = IF sd.age.t # "undefined" THEN sd.age ELSE @,
              !.updated_at = t]

\* sanitizedData.email && sanitizedData.email !== existingUser.email
EmailChanges(sd, existingEmail) ==
  Truthy(sd.email) /\ sd.email.s # existingEmail

\* Fault: an updateUser that reads the user before it validates the payload
PutStartReadsFirst(q, t, fail) ==
  LET userId == parseInt(q.rawId)
      qi     == [q EXCEPT !.userId = userId.n]
  IN  IF BadUserId(userId) THEN InvalidId(q)
      ELSE IF q.body.keys = {}
      THEN Failure(qi, 400, "At least one field must be provided for update",
                   <<"NO_UPDATE_FIELDS">>)
      ELSE IF sanitizeThrows(q.body) THEN CatchWrite(qi, ErrTypeError)
      ELSE LET sd   == sanitizeUserData(q.body)
               errs == validateUserData(sd, TRUE)
               qs   == Issue([qi EXCEPT !.sdata = sd], SelectById(userId.n))
           IN  IF fail
               THEN CatchWrite([qs EXCEPT !.sqlstate = ConnectionFailure], ErrFetchUser)
               ELSE IF userId.n \notin DOMAIN t THEN NotFound(qs)
               ELSE IF errs # <<>> THEN CatchWrite(qs, ErrValidation(errs))
               ELSE LET existingUser == userToResponse(userId.n, t[userId.n])
                    IN  [qs EXCEPT !.existingEmail = existingUser.email,
                                   !.pc = IF EmailChanges(sd, existingUser.email)
                                          THEN "precheck" ELSE "begin"]

\* PUT /:id: the handler and updateUser up to and with getUserById
PutStart(q, t, fail) ==
  LET userId == parseInt(q.rawId)
      qi     == [q EXCEPT !.userId = userId.n]
  IN  IF BadUserId(userId) THEN InvalidId(q)
      ELSE IF q.body.keys = {}
      THEN Failure(qi, 400, "At least one field must be provided for update",
                   <<"NO_UPDATE_FIELDS">>)
      ELSE IF sanitizeThrows(q.body) THEN CatchWrite(qi, ErrTypeError)
      ELSE LET sd   == sanitizeUserData(q.body)
               errs == validateUserData(sd, TRUE)
               qs   == [qi EXCEPT !.sdata = sd]
               qg   == Issue(qs, SelectById(userId.n))
           IN  IF errs # <<>> THEN CatchWrite(qs, ErrValidation(errs))
               ELSE IF fail
               THEN CatchWrite([qg EXCEPT !.sqlstate = ConnectionFailure], ErrFetchUser)
               ELSE IF userId.n \notin DOMAIN t THEN NotFound(qg)
               ELSE LET existingUser == userToResponse(userId.n, t[userId.n])
                    IN  [qg EXCEPT !.existingEmail = existingUser.email,
                                   !.pc = IF EmailChanges(sd, existingUser.email)
                                          THEN "precheck" ELSE "begin"]

PutGet(r) ==
  /\ CanStart(r)
  /\ \E rawId \in PathIds, body \in UpdateBodies, fail \in BOOLEAN :
       req' = [req EXCEPT ![r] =
                 PutStart([IdleReq EXCEPT !.op = "update", !.rawId = rawId,
                                          !.body = body], db, fail)]
  /\ UNCHANGED <<db, nextId, now, vIn, vOut>>

\* Fault: a pre-check whose failed lookup ends the update
PutPrecheckAborts(r) ==
  /\ req[r].op = "update" /\ req[r].pc = "precheck"
  /\ \E fail \in BOOLEAN :
       LET q == [Issue(req[r], SelectByEmail(req[r].sdata.email.s)) EXCEPT
                   !.lookup = IF fail THEN "failed" ELSE "answered"]
       IN  req' = [req EXCEPT ![r] =
                     IF fail
                     THEN CatchWrite([q EXCEPT !.sqlstate = ConnectionFailure], ErrUpdate)
                     ELSE IF findUserByEmail(db, q.sdata.email.s, fail)
                     THEN CatchWrite(q, ErrExists)
                     ELSE [q EXCEPT !.pc = "begin"]]
  /\ UNCHANGED <<db, nextId, now, vIn, vOut>>

\* updateUser's pre-check of the new email
PutPrecheck(r) ==
  /\ req[r].op = "update" /\ req[r].pc = "precheck"
  /\ \E fail \in BOOLEAN :
       LET q == [Issue(req[r], SelectByEmail(req[r].sdata.email.s)) EXCEPT
                   !.lookup = IF fail THEN "failed" ELSE "answered"]
       IN  req' = [req EXCEPT ![r] =
                     IF findUserByEmail(db, q.sdata.email.s, fail)
                     THEN CatchWrite(q, ErrExists)
                     ELSE [q EXCEPT !.pc = "begin"]]
  /\ UNCHANGED <<db, nextId, now, vIn, vOut>>

\* The UPDATE statement starts: its transaction's NOW() is fixed here, and
\* every reading of the clock is later than the readings before it
PutBegin(r) ==
  /\ req[r].op = "update" /\ req[r].pc = "begin"
  /\ \E fail \in BOOLEAN :
       LET q == Issue(req[r], UpdateUser(req[r].sdata, req[r].userId))
       IN  IF fail
           THEN /\ req' = [req EXCEPT ![r] =
                             CatchWrite([q EXCEPT !.sqlstate = ConnectionFailure], ErrUpdate)]
                /\ UNCHANGED now
           ELSE /\ now' = now + 1
                /\ req' = [req EXCEPT ![r] = [q EXCEPT !.pc = "apply", !.txTime = now + 1]]
  /\ UNCHANGED <<db, nextId, vIn, vOut>>

\* Fault: an UPDATE that finds no row ends the update as a failure
PutApplyThrows(r) ==
  /\ req[r].op = "update" /\ req[r].pc = "apply"
  /\ LET id == req[r].userId
     IN  IF id \notin DOMAIN db
         THEN req' = [req EXCEPT ![r] = CatchWrite(@, ErrUpdate)] /\ UNCHANGED db
         ELSE LET new  == UpdatedRow(db[id], req[r].sdata, req[r].txTime)
                  code == ConstraintError(db, id, new)
              IN  IF code # ""
                  THEN /\ req' = [req EXCEPT ![r] =
                                    CatchWrite([@ EXCEPT !.sqlstate = code], ErrUpdate)]
                       /\ UNCHANGED db
                  ELSE /\ db' = [db EXCEPT ![id] = new]
                       /\ req' = [req EXCEPT ![r] =
                                    Success(@, 200, "User updated successfully",
                                            userToResponse(id, new))]
  /\ UNCHANGED <<nextId, now, vIn, vOut>>

\* The UPDATE statement writes the row, or finds none, or trips a constraint
PutApply(r) ==
  /\ req[r].op = "update" /\ req[r].pc = "apply"
  /\ LET id == req[r].userId
     IN  IF id \notin DOMAIN db
         THEN req' = [req EXCEPT ![r] = NotFound(@)] /\ UNCHANGED db
         ELSE LET new  == UpdatedRow(db[id], req[r].sdata, req[r].txTime)
                  code == ConstraintError(db, id, new)
              IN  IF code # ""
                  THEN /\ req' = [req EXCEPT ![r] =
                                    CatchWrite([@ EXCEPT !.sqlstate = code], ErrUpdate)]
                       /\ UNCHANGED db
                  ELSE /\ db' = [db EXCEPT ![id] = new]
                       /\ req' = [req EXCEPT ![r] =
                                    Success(@, 200, "User updated successfully",
                                            userToResponse(id, new))]
  /\ UNCHANGED <<nextId, now, vIn, vOut>>

-----------------------------------------------------------------------------
(* list *)

\* text ILIKE pattern: % is any run of characters, _ any one character,
\* letters compare without case
RECURSIVE ILike(_, _)
ILike(text, pattern) ==
  IF pattern = <<>> THEN text = <<>>
  ELSE IF Head(pattern) = "%"
  THEN ILike(text, Tail(pattern)) \/ (text # <<>> /\ ILike(Tail(text), pattern))
  ELSE /\ text # <<>>
       /\ Head(pattern) = "_" \/ LowerChar(Head(pattern)) = LowerChar(Head(text))
       /\ ILike(Tail(text), Tail(pattern))

\* The integer a bound parameter holds for an INTEGER comparison: the
\* driver sends its text, and the database rejects text that is not an
\* optionally signed run of digits (SQLSTATE 22P02)
PgInteger(param) ==
  IF param.t = "number" THEN param
  ELSE IF param.t = "string" /\ trim(param.s) # <<>> THEN ToNumber(param)
  ELSE NaN

\* GET /: req.query to UserQueryParams
QueryParams(query) ==
  [page      |-> IF Truthy(query.page) THEN parseInt(query.page.s) ELSE Undefined,
   limit     |-> IF Truthy(query.limit) THEN parseInt(query.limit.s) ELSE Undefined,
   name      |-> query.name,
   email     |-> query.email,
   minAge    |-> IF Truthy(query.minAge) THEN parseInt(query.minAge.s) ELSE Undefined,
   maxAge    |-> IF Truthy(query.maxAge) THEN parseInt(query.maxAge.s) ELSE Undefined,
   sortBy    |-> query.sortBy,
   sortOrder |-> query.sortOrder]

Max(a, b) == IF a >= b THEN a ELSE b
Min(a, b) == IF a <= b THEN a ELSE b

\* Math.max(1, queryParams.page || USER_VALIDATION.DEFAULT_PAGE)
EffectivePage(page) == Max(1, IF Truthy(page) THEN page.n ELSE DEFAULT_PAGE)

\* Math.min(MAX_LIMIT, Math.max(1, queryParams.limit || DEFAULT_LIMIT))
EffectiveLimit(limit) ==
  Min(MAX_LIMIT, Max(1, IF Truthy(limit) THEN limit.n ELSE DEFAULT_LIMIT))

Cond(column, op, value) == [column |-> column, op |-> op, value |-> value]

Wild(text) == Str(<<"%">> \o text \o <<"%">>)

\* whereConditions with queryValues: each condition with its bound value
WhereConditions(qp) ==
  (IF Truthy(qp.name) THEN <<Cond("name", "ILIKE", Wild(qp.name.s))>> ELSE <<>>)
  \o (IF Truthy(qp.email) THEN <<Cond("email", "ILIKE", Wild(qp.email.s))>> ELSE <<>>)
  \o (IF qp.minAge.t # "undefined"
      THEN <<Cond("age", ">=", Wild(TemplateString(qp.minAge)))>> ELSE <<>>)
  \o (IF qp.maxAge.t # "undefined"
      THEN <<Cond("age", "<=", Wild(TemplateString(qp.maxAge)))>> ELSE <<>>)

\* Binding the values fails when one bound to an age comparison is no integer
BindError(conds) ==
  \E i \in 1..Len(conds) :
    conds[i].column = "age" /\ PgInteger(conds[i].value).t # "number"

\* One condition on one row; a comparison with a NULL age is not true
CondHolds(row, c) ==
  CASE c.column = "name"  -> ILike(row.name, c.value.s)
    [] c.column = "email" -> ILike(row.email, c.value.s)
    [] c.op = ">="        -> row.age.t = "number" /\ row.age.n >= PgInteger(c.value).n
    [] OTHER              -> row.age.t = "number" /\ row.age.n <= PgInteger(c.value).n

\* WHERE c1 AND c2 ...
WhereHolds(row, conds) == \A i \in 1..Len(conds) : CondHolds(row, conds[i])

Selected(t, conds) == {j \in DOMAIN t : WhereHolds(t[j], conds)}

\* Fault: the count query without its WHERE clause
CountAll(t, conds) == Cardinality(DOMAIN t)

\* SELECT COUNT(*) FROM users <where>, then parseInt of the count's text
CountQuery(t, conds) == parseInt(NatToString(Cardinality(Selected(t, conds)))).n

SortColumns == {<<"n","a","m","e">>, <<"e","m","a","i","l">>, <<"a","g","e">>,
                <<"c","r","e","a","t","e","d","_","a","t">>}

\* queryParams.sortBy || 'created_at', queryParams.sortOrder || 'DESC'
SortBy(qp) == IF Truthy(qp.sortBy) THEN qp.sortBy.s ELSE <<"c","r","e","a","t","e","d","_","a","t">>
SortOrder(qp) == IF Truthy(qp.sortOrder) THEN qp.sortOrder.s ELSE <<"D","E","S","C">>

\* May row a come before row b under ORDER BY column order?  Text columns
\* sort by the database's collation, which the model leaves open; a NULL
\* age sorts as larger than every age.
InOrder(a, b, column, order) ==
  LET asc == order = <<"A","S","C">>
      le(x, y) == IF asc THEN x <= y ELSE x >= y
  IN  CASE column = <<"a","g","e">> ->
             IF a.age.t # "number" THEN (~asc \/ b.age.t # "number")
             ELSE IF b.age.t # "number" THEN asc
             ELSE le(a.age.n, b.age.n)
        [] column = <<"c","r","e","a","t","e","d","_","a","t">> ->
             le(a.created_at, b.created_at)
        [] OTHER -> TRUE

\* The orders in which the database may return the selected rows
Orderings(t, ids, column, order) ==
  {s \in [1..Cardinality(ids) -> ids] :
     /\ \A i, j \in DOMAIN s : i # j => s[i] # s[j]
     /\ \A i, j \in DOMAIN s : i < j => InOrder(t[s[i]], t[s[j]], column, order)}

\* Fault: a page query without its OFFSET
PageFromStart(s, limit, offset) == SubSeq(s, 1, Min(limit, Len(s)))

\* LIMIT limit OFFSET offset of the ordered rows
Page(s, limit, offset) ==
  SubSeq(s, Min(offset, Len(s)) + 1, Min(offset + limit, Len(s)))

\* Fault: Math.floor in place of Math.ceil
floor(total, limit) == total \div limit

\* Math.ceil(total / limit)
ceil(total, limit) == (total + limit - 1) \div limit

Pagination(page, limit, total) ==
  LET totalPages == ceil(total, limit)
  IN  [page |-> page, limit |-> limit, total |-> total, totalPages |-> totalPages,
       hasNext |-> page < totalPages, hasPrev |-> page > 1]

\* whereClause: the column, the operator and the placeholder of each condition
WhereClause(conds) ==
  [i \in 1..Len(conds) |-> <<conds[i].column, conds[i].op, "$n">>]

QueryValues(conds) == [i \in 1..Len(conds) |-> conds[i].value]

\* countQuery with queryValues
CountUsers(conds) ==
  Statement("SELECT COUNT(*) FROM users ${whereClause}",
            <<>>, WhereClause(conds), <<>>, QueryValues(conds))

\* usersQuery with usersValues: sortBy and sortOrder are put into the text
\* as they came, limit and offset are bound
SelectUsers(conds, sortBy, sortOrder, limit, offset) ==
  Statement("SELECT * FROM users ${whereClause} ${orderByClause} LIMIT $n OFFSET $n",
            <<>>, WhereClause(conds), <<sortBy, sortOrder>>,
            QueryValues(conds) \o <<Num(limit), Num(offset)>>)

\* What a client may ask of GET /
Q(page, limit, name, email, minAge, maxAge, sortBy, sortOrder) ==
  [page |-> page, limit |-> limit, name |-> name, email |-> email,
   minAge |-> minAge, maxAge |-> maxAge, sortBy |-> sortBy, sortOrder |-> sortOrder]

PageInputs == {Undefined, Str(<<"0">>), Str(<<"-","1">>), Str(<<"2">>)}

LimitInputs ==
  {Undefined, Str(<<"0">>), Str(<<"-","5">>), Str(<<"1">>), Str(<<"2">>),
   Str(<<"1","0","1">>)}

\* name, email, minAge, maxAge
FilterInputs ==
  { <<Undefined, Undefined, Undefined, Undefined>>,
    <<Str(<<"O">>), Undefined, Undefined, Undefined>>,
    <<Undefined, Str(<<"J","A","N","E">>), Undefined, Undefined>>,
    <<Str(<<"o">>), Str(<<"b","o","b">>), Undefined, Undefined>>,
    <<Undefined, Undefined, Str(<<"3","0">>), Str(<<"4","0">>)>>,
    <<Str(<<"A","l">>), Undefined, Undefined, Undefined>> }

\* sortBy, sortOrder
SortInputs ==
  { <<Undefined, Undefined>>,
    <<Str(<<"a","g","e">>), Str(<<"A","S","C">>)>>,
    <<Str(<<"n","a","m","e">>), Undefined>>,
    <<Str(<<"x">>), Undefined>> }

\* Every page and limit without a filter, and every filter and order on the
\* first two pages of one row or of the default size
ListQueries ==
  { Q(p, l, Undefined, Undefined, Undefined, Undefined, Undefined, Undefined) :
      p \in PageInputs, l \in LimitInputs }
  \cup
  { Q(p, l, f[1], f[2], f[3], f[4], o[1], o[2]) :
      p \in {Undefined, Str(<<"2">>)}, l \in {Undefined, Str(<<"1">>)},
      f \in FilterInputs, o \in SortInputs }

\* GET / and getUsers up to and with the count query
ListCount(r) ==
  /\ CanStart(r)
  /\ \A j \in Req : req[j].op # "list"
  /\ \E query \in ListQueries, fail \in BOOLEAN :
       LET qp     == QueryParams(query)
           page   == EffectivePage(qp.page)
           limit  == EffectiveLimit(qp.limit)
           conds  == WhereConditions(qp)
           q      == Issue([IdleReq EXCEPT !.op = "list", !.query = query],
                           CountUsers(conds))
           lp     == [page |-> page, limit |-> limit, offset |-> (page - 1) * limit,
                      total |-> 0, queryValues |-> QueryValues(conds),
                      snapshot |-> db, quiet |-> FALSE]
       IN  req' = [req EXCEPT ![r] =
             IF fail
             THEN CatchRead([q EXCEPT !.lp = lp, !.sqlstate = ConnectionFailure], ErrFetchUsers)
             ELSE IF BindError(conds)
             THEN CatchRead([q EXCEPT !.lp = lp, !.sqlstate = "22P02"], ErrFetchUsers)
             ELSE [q EXCEPT !.pc = "page",
                            !.lp = [lp EXCEPT !.total = CountQuery(db, conds)]]]
  /\ UNCHANGED <<db, nextId, now, vIn, vOut>>

\* The page query of getUsers, and the response.  lp.snapshot is the table
\* the count query read and lp.quiet says that the page query read the same.
ListPage(r) ==
  /\ req[r].op = "list" /\ req[r].pc = "page"
  /\ LET qp    == QueryParams(req[r].query)
         conds == WhereConditions(qp)
         lp    == req[r].lp
         q     == Issue(req[r], SelectUsers(conds, SortBy(qp), SortOrder(qp),
                                            lp.limit, lp.offset))
     IN  \E fail \in BOOLEAN :
           IF fail
           THEN req' = [req EXCEPT ![r] =
                          CatchRead([q EXCEPT !.sqlstate = ConnectionFailure], ErrFetchUsers)]
           ELSE IF SortBy(qp) \notin SortColumns
           THEN req' = [req EXCEPT ![r] =
                          CatchRead([q EXCEPT !.sqlstate = "42703"], ErrFetchUsers)]
           ELSE \E s \in Orderings(db, Selected(db, conds), SortBy(qp), SortOrder(qp)) :
                  LET rows == Page(s, lp.limit, lp.offset)
                  IN  req' = [req EXCEPT ![r] =
                        [q EXCEPT !.pc = "done", !.status = 200, !.success = TRUE,
                                  !.keys = {"success", "message", "data"},
                                  !.message = "Users retrieved successfully",
                                  !.users = [i \in 1..Len(rows) |->
                                               userToResponse(rows[i], db[rows[i]])],
                                  !.pagination = Pagination(lp.page, lp.limit, lp.total),
                                  !.lp = [lp EXCEPT !.quiet = (db = lp.snapshot)]]]
  /\ UNCHANGED <<db, nextId, now, vIn, vOut>>

-----------------------------------------------------------------------------
(* The service *)

Init ==
  /\ db = SeedRows
  /\ nextId = 4
  /\ now = SeedTime
  /\ req = [r \in Req |-> IdleReq]
  /\ vIn = [data |-> EmptyBody, isUpdate |-> FALSE, sanitized |-> FALSE]
  /\ vOut = [done |-> FALSE, errors |-> <<>>]

Next ==
  \E r \in Req :
    \/ Post(r)
    \/ GetById(r)
    \/ Delete(r)
    \/ PutGet(r)
    \/ PutPrecheck(r)
    \/ PutBegin(r)
    \/ PutApply(r)

Spec == Init /\ [][Next]_vars

\* The list operation with deletes running beside it
NextList ==
  \E r \in Req :
    \/ ListCount(r)
    \/ ListPage(r)
    \/ Delete(r)

SpecList == Init /\ [][NextList]_vars

\* The lists that a write beside them can disturb: the first two pages, of
\* one row, of two rows and of the default size, without a filter or with a
\* filter on name, in the default order
RaceQueries ==
  {q \in ListQueries :
     /\ q.page \in {Undefined, Str(<<"2">>)}
     /\ q.limit \in {Undefined, Str(<<"1">>), Str(<<"2">>)}
     /\ q.email = Undefined /\ q.minAge = Undefined /\ q.sortBy = Undefined}

\* The payloads of updates that change a name
RaceBodies == {b \in UpdateBodies : b.keys = {"name"} /\ b.name.t = "string"}

\* The list operation with updates of a name and deletes running beside it
NextListRace ==
  \E r \in Req :
    \/ ListCount(r) /\ req'[r].query \in RaceQueries
    \/ ListPage(r)
    \/ Delete(r)
    \/ PutGet(r) /\ req'[r].body \in RaceBodies
    \/ PutBegin(r)
    \/ PutApply(r)

SpecListRace == Init /\ [][NextListRace]_vars

-----------------------------------------------------------------------------
(* sanitizeUserData and validateUserData on their own: vIn is the record
   and the mode, vOut the errors once validateUserData has run *)

NameInputs ==
  {Undefined, Str(<<>>), Str(<<"a">>), Str(AlRaw), Str(AnnLee),
   Str(Rep(100, "a")), Str(Rep(101, "a")), Num(5)}

EmailInputs ==
  {Undefined, Str(<<>>), Str(AnnEmailRaw), Str(Rep(255, "a")),
   Str(Rep(256, "a")), Num(5)}

AgeInputs ==
  {Undefined, Null, NaN, Num(0), Num(29), Num(100), Num(101), Num(0 - 1),
   Str(<<"2","9">>)}

\* JSON has no undefined: a key is in the body when it has a value
BodyOf(name, email, age) ==
  Body({k \in {"name", "email", "age"} :
          \/ k = "name" /\ name # Undefined
          \/ k = "email" /\ email # Undefined
          \/ k = "age" /\ age # Undefined},
       name, email, age)

InitValidate ==
  /\ db = SeedRows
  /\ nextId = 4
  /\ now = SeedTime
  /\ req = [r \in Req |-> IdleReq]
  /\ \E name \in NameInputs, email \in EmailInputs, age \in AgeInputs,
        isUpdate \in BOOLEAN :
       vIn = [data |-> BodyOf(name, email, age), isUpdate |-> isUpdate,
              sanitized |-> FALSE]
  /\ vOut = [done |-> FALSE, errors |-> <<>>]

Sanitize ==
  /\ ~vIn.sanitized /\ ~vOut.done
  /\ ~sanitizeThrows(vIn.data)
  /\ vIn' = [vIn EXCEPT !.data = sanitizeUserData(@), !.sanitized = TRUE]
  /\ UNCHANGED <<db, nextId, now, req, vOut>>

Validate ==
  /\ ~vOut.done
  /\ vOut' = [done |-> TRUE, errors |-> validateUserData(vIn.data, vIn.isUpdate)]
  /\ UNCHANGED <<db, nextId, now, req, vIn>>

NextValidate == Sanitize \/ Validate

SpecValidate == InitValidate /\ [][NextValidate]_vars

-----------------------------------------------------------------------------
(* Properties *)

\* The email a body's email is stored as: trimmed and lower-cased
StoredEmail(body) == toLowerCase(trim(body.email.s))

\* A record as the data model admits it: a name of 2 to 100 characters, an
\* email of 1 to 255, an age that is absent or an integer in 0..100.  In a
\* partial update only the fields that are present count.
AdmittedRecord(data, isUpdate) ==
  /\ (~isUpdate \/ "name" \in data.keys) =>
       data.name.t = "string" /\ Len(data.name.s) \in 2..100
  /\ (~isUpdate \/ "email" \in data.keys) =>
       data.email.t = "string" /\ Len(data.email.s) \in 1..255
  /\ "age" \in data.keys => data.age.t = "number" /\ data.age.n \in 0..100

\* C1: two POST /users with the same email, trimmed and lower-cased, in any
\* interleaving and with the database answering every query, end with one
\* 201 and one 409.
C1_OneCreatedOneConflict ==
  \A r1, r2 \in Req :
    ( /\ r1 < r2
      /\ req[r1].op = "create" /\ req[r1].pc = "done"
      /\ req[r2].op = "create" /\ req[r2].pc = "done"
      /\ Truthy(req[r1].body.name) /\ Truthy(req[r1].body.email)
      /\ Truthy(req[r2].body.name) /\ Truthy(req[r2].body.email)
      /\ StoredEmail(req[r1].body) = StoredEmail(req[r2].body)
      /\ req[r1].sqlstate # ConnectionFailure
      /\ req[r2].sqlstate # ConnectionFailure )
    => {req[r1].status, req[r2].status} = {201, 409}

\* C2: in every reachable state no two stored rows have the same email.
C2_EmailsUnique ==
  \A i, j \in DOMAIN db : i # j => db[i].email # db[j].email

\* C2 at work: an update has moved a row to a new email and another update,
\* past its pre-check, was refused that email by the UNIQUE constraint.
C2_Witness ==
  \E r1, r2 \in Req :
    /\ req[r1].op = "update" /\ req[r1].pc = "done" /\ req[r1].status = 200
    /\ "email" \in req[r1].body.keys
    /\ req[r1].userId \in DOMAIN db
    /\ db[req[r1].userId].email = AlEmail
    /\ req[r2].op = "update" /\ req[r2].pc = "done"
    /\ req[r2].sqlstate = "23505"

\* C3: validateUserData returns no error for a record the data model
\* admits, in creation mode and in partial-update mode.
C3_AdmittedRecordsPass ==
  (vOut.done /\ AdmittedRecord(vIn.data, vIn.isUpdate)) => vOut.errors = <<>>

\* C4: a POST /users with an admitted record whose email no row holds, the
\* database answering every query, ends with 201 and the stored and returned
\* record has the name trimmed, the email trimmed and lower-cased, the age
\* sent, and created_at equal to updated_at.
C4_CreateStoresSanitized ==
  \A r \in Req :
    ( /\ req[r].op = "create" /\ req[r].pc = "done"
      /\ Truthy(req[r].body.name) /\ Truthy(req[r].body.email)
      /\ AdmittedRecord(sanitizeUserData(req[r].body), FALSE)
      /\ \A j \in DOMAIN SeedRows : SeedRows[j].email # StoredEmail(req[r].body)
      /\ \A r2 \in Req \ {r} :
           req[r2].op = "create" /\ Truthy(req[r2].body.email)
             => StoredEmail(req[r2].body) # StoredEmail(req[r].body)
      /\ req[r].sqlstate # ConnectionFailure )
    => /\ req[r].status = 201
       /\ req[r].user.name = trim(req[r].body.name.s)
       /\ req[r].user.email = StoredEmail(req[r].body)
       /\ req[r].user.age = (IF "age" \in req[r].body.keys THEN req[r].body.age ELSE Null)
       /\ req[r].user.created_at = req[r].user.updated_at
       /\ req[r].user.id \in DOMAIN db
       /\ userToResponse(req[r].user.id, db[req[r].user.id]) = req[r].user

\* The integer a query parameter's text spells
Supplied(v) == ToNumber(v).n

ListAnswered(r) ==
  req[r].op = "list" /\ req[r].pc = "done" /\ req[r].status = 200

\* C5: the page of a list response is 1 when the page sent is below 1, its
\* limit is 100 when the limit sent is above 100 and 1 when the limit sent
\* is below 1, zero included; absent, they are 1 and 10.
C5_PageAndLimitClamped ==
  \A r \in Req :
    ListAnswered(r) =>
      LET page  == req[r].query.page
          limit == req[r].query.limit
          pg    == req[r].pagination
      IN  /\ page = Undefined => pg.page = 1
          /\ limit = Undefined => pg.limit = 10
          /\ (page # Undefined /\ Supplied(page) < 1) => pg.page = 1
          /\ (limit # Undefined /\ Supplied(limit) > 100) => pg.limit = 100
          /\ (limit # Undefined /\ Supplied(limit) < 1) => pg.limit = 1

\* n is the least integer with n * d >= a
IsCeiling(n, a, d) == n * d >= a /\ (n - 1) * d < a

\* C6: in every list response the offset of the page query is
\* (page - 1) * limit, totalPages is the ceiling of total / limit, hasNext
\* says page < totalPages and hasPrev says page > 1.
C6_PaginationMath ==
  \A r \in Req :
    ListAnswered(r) =>
      LET pg == req[r].pagination
      IN  /\ pg.page >= 1 /\ pg.limit \in 1..100
          /\ pg.total = req[r].lp.total
          /\ req[r].lp.offset = (pg.page - 1) * pg.limit
          /\ IsCeiling(pg.totalPages, pg.total, pg.limit)
          /\ pg.hasNext <=> (pg.page < pg.totalPages)
          /\ pg.hasPrev <=> (pg.page > 1)

\* C6 at work: the second page of two rows out of three.
C6_Witness ==
  \E r \in Req :
    /\ ListAnswered(r)
    /\ req[r].pagination.total = 3 /\ req[r].pagination.limit = 2
    /\ req[r].pagination.page = 2 /\ req[r].pagination.totalPages = 2
    /\ req[r].pagination.hasPrev /\ ~req[r].pagination.hasNext
    /\ Len(req[r].users) = 1

\* Does text hold sub, letters compared without case?
ContainsCI(text, sub) ==
  \E i \in 0..(Len(text) - Len(sub)) :
    toLowerCase(SubSeq(text, i + 1, i + Len(sub))) = toLowerCase(sub)

\* A row matches a query's filter: every filter that is sent holds of it
MatchesFilter(row, query) ==
  /\ Truthy(query.name) => ContainsCI(row.name, query.name.s)
  /\ Truthy(query.email) => ContainsCI(row.email, query.email.s)
  /\ Truthy(query.minAge) => row.age.t = "number" /\ row.age.n >= Supplied(query.minAge)
  /\ Truthy(query.maxAge) => row.age.t = "number" /\ row.age.n <= Supplied(query.maxAge)

\* C7: a list response whose two queries read the same table holds at most
\* limit records, and its total is the number of stored rows that match the
\* filter, whatever the page and the limit.
C7_TotalCountsTheFilter ==
  \A r \in Req :
    (ListAnswered(r) /\ req[r].lp.quiet) =>
      /\ Len(req[r].users) <= req[r].pagination.limit
      /\ req[r].pagination.total =
           Cardinality({j \in DOMAIN req[r].lp.snapshot :
                          MatchesFilter(req[r].lp.snapshot[j], req[r].query)})

\* C7 at work: two rows match the name filter and the page holds one.
C7_Witness ==
  \E r \in Req :
    /\ ListAnswered(r) /\ req[r].lp.quiet
    /\ req[r].query.name = Str(<<"O">>)
    /\ req[r].pagination.total = 2 /\ req[r].pagination.limit = 1
    /\ Len(req[r].users) = 1
    /\ Cardinality(DOMAIN req[r].lp.snapshot) = 3

\* C8: a list with minAge, maxAge, sortBy=age and sortOrder=ASC, the
\* database answering, ends with 200, binds the two ages as integers, and
\* returns rows with ages within the bounds in non-decreasing order.
C8_AgeRangeListed ==
  \A r \in Req :
    ( /\ req[r].op = "list" /\ req[r].pc = "done"
      /\ Truthy(req[r].query.minAge) /\ Truthy(req[r].query.maxAge)
      /\ req[r].query.sortBy = Str(<<"a","g","e">>)
      /\ req[r].query.sortOrder = Str(<<"A","S","C">>)
      /\ req[r].sqlstate # ConnectionFailure )
    => LET a  == Supplied(req[r].query.minAge)
           b  == Supplied(req[r].query.maxAge)
           qv == req[r].lp.queryValues
           us == req[r].users
       IN  /\ req[r].status = 200
           /\ Len(qv) >= 2
           /\ qv[Len(qv) - 1] = Num(a) /\ qv[Len(qv)] = Num(b)
           /\ \A i \in DOMAIN us : us[i].age.n >= a /\ us[i].age.n <= b
           /\ \A i, j \in DOMAIN us : i < j => us[i].age.n <= us[j].age.n

\* The step in which the UPDATE of request r writes its row
UpdateCommits(r) ==
  /\ req[r].op = "update" /\ req[r].pc = "apply"
  /\ req'[r].pc = "done" /\ req'[r].status = 200

\* C9: a successful update changes only the fields of name, email and age
\* that its payload holds: the fields left out, the id and created_at are in
\* the stored and the returned record what they were, and no other row
\* changes.
C9_UpdateFrame ==
  [][\A r \in Req :
       UpdateCommits(r) =>
         LET id   == req[r].userId
             keys == req[r].body.keys
             out  == req'[r].user
         IN  /\ id \in DOMAIN db /\ DOMAIN db' = DOMAIN db
             /\ \A j \in DOMAIN db \ {id} : db'[j] = db[j]
             /\ db'[id].created_at = db[id].created_at
             /\ "name" \notin keys => db'[id].name = db[id].name
             /\ "email" \notin keys => db'[id].email = db[id].email
             /\ "age" \notin keys => db'[id].age = db[id].age
             /\ out.id = id
             /\ out.created_at = toISOString(db[id].created_at)
             /\ "name" \notin keys => out.name = db[id].name
             /\ "email" \notin keys => out.email = db[id].email
             /\ "age" \notin keys => out.age = db[id].age]_vars

\* C9 at work: an update of the name alone has gone through.
C9_Witness ==
  \E r \in Req :
    /\ req[r].op = "update" /\ req[r].pc = "done" /\ req[r].status = 200
    /\ req[r].body.keys = {"name"}
    /\ req[r].userId \in DOMAIN db
    /\ db[req[r].userId].name = <<"A","l">>
    /\ db[req[r].userId].email = SeedRows[req[r].userId].email
    /\ req[r].user.email = SeedRows[req[r].userId].email

\* C10 as claimed: every successful update strictly increases the row's
\* updated_at.
C10_UpdatedAtStrictlyIncreases ==
  [][\A r \in Req :
       UpdateCommits(r) =>
         db'[req[r].userId].updated_at > db[req[r].userId].updated_at]_vars

\* C10 as it holds: a successful update, whatever its payload holds, sets
\* updated_at to the NOW() of its own UPDATE statement, never below
\* created_at; that is an increase unless another update of the same row,
\* whose statement started no earlier, has written the row first.
C10_UpdatedAtIsStatementTime ==
  [][\A r \in Req :
       UpdateCommits(r) =>
         LET id == req[r].userId
         IN  /\ db'[id].updated_at = req[r].txTime
             /\ req'[r].user.updated_at = toISOString(req[r].txTime)
             /\ db'[id].updated_at >= db'[id].created_at
             /\ \/ db'[id].updated_at > db[id].updated_at
                \/ \E r2 \in Req \ {r} :
                     /\ req[r2].op = "update" /\ req[r2].pc = "done"
                     /\ req[r2].status = 200 /\ req[r2].userId = id
                     /\ req[r2].txTime >= req[r].txTime
                     /\ db[id].updated_at = req[r2].txTime]_vars

\* C10 at work: two updates of one row have gone through, the second
\* statement to start being the last to write.
C10_Witness ==
  \E r1, r2 \in Req :
    /\ r1 # r2
    /\ req[r1].op = "update" /\ req[r1].pc = "done" /\ req[r1].status = 200
    /\ req[r2].op = "update" /\ req[r2].pc = "done" /\ req[r2].status = 200
    /\ req[r1].userId = req[r2].userId
    /\ req[r1].txTime < req[r2].txTime
    /\ req[r1].userId \in DOMAIN db
    /\ db[req[r1].userId].updated_at = req[r2].txTime
    /\ req[r1].body.keys = {"other"}

\* The handler of request q hands its payload to createUser or updateUser
CallsService(q) ==
  \/ q.op = "create" /\ Truthy(q.body.name) /\ Truthy(q.body.email)
  \/ q.op = "update" /\ ~BadUserId(parseInt(q.rawId)) /\ q.body.keys # {}

\* The payload of request q, sanitized, fails validateUserData
FailsValidation(q) ==
  /\ ~sanitizeThrows(q.body)
  /\ validateUserData(sanitizeUserData(q.body), q.op = "update") # <<>>

\* C11: a create or an update whose sanitized payload fails validation ends,
\* in the step that takes it up, with 400 "Validation failed", has handed no
\* statement to the database, and leaves the table as it was.
C11_ValidationBeforeStorage ==
  [][\A r \in Req :
       ( /\ req[r].pc = "idle" /\ req'[r].pc # "idle"
         /\ CallsService(req'[r])
         /\ FailsValidation(req'[r]) )
       => /\ req'[r].pc = "done"
          /\ req'[r].status = 400
          /\ req'[r].message = "Validation failed"
          /\ req'[r].error = ErrValidation(validateUserData(req'[r].sdata,
                                                           req'[r].op = "update"))
          /\ req'[r].sql = <<>>
          /\ db' = db]_vars

\* C11 at work: a create and an update have ended with a validation error
\* and no statement.
C11_Witness ==
  \E r1, r2 \in Req :
    /\ req[r1].op = "create" /\ req[r1].pc = "done"
    /\ CallsService(req[r1]) /\ FailsValidation(req[r1])
    /\ req[r1].status = 400 /\ req[r1].sql = <<>>
    /\ req[r2].op = "update" /\ req[r2].pc = "done"
    /\ CallsService(req[r2]) /\ FailsValidation(req[r2])
    /\ req[r2].status = 400 /\ req[r2].sql = <<>>
    /\ db = SeedRows

\* The step in which the pre-check of update r makes its lookup
PrecheckRuns(r) ==
  /\ req[r].op = "update" /\ req[r].pc = "precheck"
  /\ req'[r].pc # "precheck"

\* A row of table t other than row id holds the email
HeldByAnother(t, id, email) ==
  \E j \in DOMAIN t : j # id /\ t[j].email = email

\* The request has handed an UPDATE to the database
IssuedUpdate(q) ==
  \E i \in DOMAIN q.sql : q.sql[i] = UpdateUser(q.sdata, q.userId)

\* C12 as claimed: an update that changes the email to one that another
\* stored row holds ends with 409, hands no UPDATE to the database and leaves
\* every row as it was.
C12_DuplicateEmailRefused ==
  [][\A r \in Req :
       ( /\ PrecheckRuns(r)
         /\ HeldByAnother(db, req[r].userId, req[r].sdata.email.s) )
       => /\ req'[r].pc = "done" /\ req'[r].status = 409
          /\ ~IssuedUpdate(req'[r])
          /\ db' = db]_vars

\* C12 as it holds: when the lookup of the pre-check is answered by the
\* database and another stored row holds the new email, the update ends
\* with 409 "User with this email already exists", hands no UPDATE to the
\* database and leaves every row as it was.
C12_DuplicateEmailRefusedWhenLookupAnswers ==
  [][\A r \in Req :
       ( /\ PrecheckRuns(r)
         /\ req'[r].lookup = "answered"
         /\ HeldByAnother(db, req[r].userId, req[r].sdata.email.s) )
       => /\ req'[r].pc = "done" /\ req'[r].status = 409
          /\ req'[r].message = "User with this email already exists"
          /\ req'[r].error = ErrExists
          /\ ~IssuedUpdate(req'[r])
          /\ db' = db]_vars

\* C12 at work: an update of row 1 to the email of row 2 was refused by the
\* pre-check.
C12_Witness ==
  \E r \in Req :
    /\ req[r].op = "update" /\ req[r].pc = "done" /\ req[r].status = 409
    /\ req[r].userId = 1 /\ req[r].sdata.email.s = JaneEmail
    /\ req[r].lookup = "answered"
    /\ req[r].sql = <<SelectById(1), SelectByEmail(JaneEmail)>>
    /\ db = SeedRows

\* The step in which request r, a DELETE /:id, is handled
DeleteRuns(r) ==
  /\ req[r].pc = "idle"
  /\ req'[r].op = "delete" /\ req'[r].pc = "done"

\* C13: a delete of a positive id that no stored row has, the database
\* answering its DELETE, ends with 404 "User not found", not with an error
\* or a 500, and leaves the table as it was; so does the second of two
\* deletes of one id, in whatever order the two are handled.
C13_DeleteOfMissingIs404 ==
  [][\A r \in Req :
       ( /\ DeleteRuns(r)
         /\ ~BadUserId(parseInt(req'[r].rawId))
         /\ parseInt(req'[r].rawId).n \notin DOMAIN db
         /\ req'[r].sqlstate # ConnectionFailure )
       => /\ req'[r].status = 404
          /\ req'[r].message = "User not found"
          /\ req'[r].error = <<"USER_NOT_FOUND">>
          /\ req'[r].sql = <<DeleteById(parseInt(req'[r].rawId).n)>>
          /\ db' = db]_vars

\* C13 at work: of two deletes of row 1 one has removed it and the other
\* was answered 404; a row 1 is not stored and rows 2 and 3 are.
C13_Witness ==
  \E r1, r2 \in Req :
    /\ req[r1].op = "delete" /\ req[r1].pc = "done" /\ req[r1].status = 200
    /\ req[r2].op = "delete" /\ req[r2].pc = "done" /\ req[r2].status = 404
    /\ req[r1].userId = 1 /\ req[r2].userId = 1
    /\ DOMAIN db = {2, 3}
    /\ \A j \in DOMAIN db : db[j] = SeedRows[j]

SortOrders == {<<"A","S","C">>, <<"D","E","S","C">>}

\* C14: in every statement handed to the database the values of the
\* request are bound parameters: each condition of a WHERE clause compares
\* its column with a placeholder, limit and offset are the last two bound
\* values of the page query, and what stands after ORDER BY is one of name,
\* email, age, created_at followed by ASC or DESC.
C14_SqlTextFreeOfRequestValues ==
  \A r \in Req :
    \A i \in DOMAIN req[r].sql :
      LET st == req[r].sql[i]
          n  == Len(st.values)
      IN  /\ \A k \in DOMAIN st.where : st.where[k][3] = "$n"
          /\ Len(st.values) >= Len(st.where)
          /\ st.orderBy # <<>> =>
                /\ st.values[n - 1] = Num(req[r].lp.limit)
                /\ st.values[n] = Num(req[r].lp.offset)
                /\ st.orderBy[1] \in SortColumns
                /\ st.orderBy[2] \in SortOrders

\* The text spells a positive integer: digits and nothing else, not all 0
IsPositiveInteger(text) ==
  text # <<>> /\ DigitPrefix(text) = text /\ DigitsValue(text, 0) > 0

\* C15: a GET, PUT or DELETE of /users/:id whose :id does not spell a
\* positive integer ends with 400 and hands no statement to the database;
\* one whose :id is a positive integer that no row has, the payload of a PUT
\* being valid and the database answering, ends with 404.
C15_PathIdChecked ==
  \A r \in Req :
    (req[r].pc = "done" /\ req[r].op \in {"get", "update", "delete"}) =>
      /\ ~IsPositiveInteger(req[r].rawId) =>
            req[r].status = 400 /\ req[r].sql = <<>>
      /\ ( /\ IsPositiveInteger(req[r].rawId)
           /\ DigitsValue(req[r].rawId, 0) \notin DOMAIN SeedRows
           /\ req[r].op = "update" => (CallsService(req[r]) /\ ~FailsValidation(req[r])
                                         /\ ~sanitizeThrows(req[r].body))
           /\ req[r].sqlstate # ConnectionFailure )
         => req[r].status = 404

\* C16: every response of the five handlers has the fields success and
\* message and, beside them, data when success is true and error when it is
\* false.
C16_UniformEnvelope ==
  \A r \in Req :
    req[r].pc = "done" =>
      req[r].keys = (IF req[r].success THEN {"success", "message", "data"}
                                       ELSE {"success", "message", "error"})

\* The field an error of validateUserData is about
ErrorField(e) ==
  IF e \in {"Name is required.", "Name must be a string", "Name must be at least 2",
            "Name must be no more than 100 characters long"}
  THEN "name"
  ELSE IF e \in {"Email is required.", "Email must be a string",
                 "Email must be no more than 255 characters long"}
  THEN "email"
  ELSE "age"

\* The rules of the data model: a name is a string of 2 to 100 characters, an
\* email a string of 1 to 255, and an age, if one is given, a number in 0..100
ViolatesRule(data, field) ==
  CASE field = "name"  -> ~(data.name.t = "string" /\ Len(data.name.s) \in 2..100)
    [] field = "email" -> ~(data.email.t = "string" /\ Len(data.email.s) \in 1..255)
    [] OTHER           -> /\ data.age.t \notin {"undefined", "null"}
                          /\ ~(data.age.t = "number" /\ data.age.n \in 0..100)

\* The fields validateUserData is to check: all in creation mode, those that
\* are present in partial-update mode
Applicable(data, isUpdate, field) == ~isUpdate \/ field \in data.keys

\* The applicable fields that violate their rule, in the order name, email, age
ViolatedFields(data, isUpdate) ==
  LET one(field) == IF Applicable(data, isUpdate, field) /\ ViolatesRule(data, field)
                    THEN <<field>> ELSE <<>>
  IN  one("name") \o one("email") \o one("age")

\* C17: the errors validateUserData returns are one for each applicable
\* field that violates its rule, in the order name, email, age; a field that
\* is absent from a partial update has none.
C17_OneErrorPerViolatedField ==
  vOut.done =>
    [i \in 1..Len(vOut.errors) |-> ErrorField(vOut.errors[i])]
      = ViolatedFields(vIn.data, vIn.isUpdate)

\* The statement with which request q writes: its INSERT or its UPDATE
WriteOf(q) ==
  IF q.op = "create" THEN InsertUser(q.sdata) ELSE UpdateUser(q.sdata, q.userId)

\* C18: when the query of findUserByEmail fails during a create or an
\* update, the operation goes on as if no row had the email: the step ends
\* with no response and no error kept, the next step of the request hands
\* its INSERT or UPDATE to the database, and the response, once sent, is the
\* outcome of that statement.
C18_FailedLookupIsNoDuplicate ==
  [][\A r \in Req :
       /\ (req[r].lookup # "failed" /\ req'[r].lookup = "failed") =>
             /\ req'[r].op \in {"create", "update"}
             /\ req'[r].pc = "begin"
             /\ req'[r].status = 0 /\ req'[r].error = <<>> /\ req'[r].sqlstate = ""
             /\ db' = db
       /\ (req[r].lookup = "failed" /\ req'[r] # req[r]) =>
             /\ req'[r].lookup = "failed"
             /\ req'[r].sql[Len(req'[r].sql)] = WriteOf(req[r])
             /\ req'[r].pc = "done" =>
                   \/ req'[r].success
                   \/ req'[r].error \in {ErrCreate, ErrUpdate, <<"USER_NOT_FOUND">>}]_vars

\* C18 at work: an update whose lookup failed has written the new email.
C18_Witness ==
  \E r \in Req :
    /\ req[r].op = "update" /\ req[r].lookup = "failed"
    /\ req[r].pc = "done" /\ req[r].status = 200
    /\ req[r].sql = <<SelectById(req[r].userId), SelectByEmail(AlEmail),
                      UpdateUser(req[r].sdata, req[r].userId)>>
    /\ req[r].userId \in DOMAIN db
    /\ db[req[r].userId].email = AlEmail

\* C19: an update whose pre-check found no row with the new email and
\* whose UPDATE then trips the unique constraint on email, another request
\* having stored that email in between, is answered 409 as a duplicate
\* email, and the table stays as it was.
C19_ConstraintRaceIs409 ==
  [][\A r \in Req :
       ( /\ req[r].op = "update" /\ req[r].pc = "apply"
         /\ req[r].lookup = "answered"
         /\ req'[r].pc = "done" /\ req'[r].sqlstate = "23505" )
       => /\ req'[r].status = 409
          /\ req'[r].message = "User with this email already exists"
          /\ db' = db]_vars

\* C20: when the row of an update has been deleted after getUserById read
\* it, the UPDATE finds no row and the update is answered 404 "User not
\* found", not an error; the UPDATE writes nothing, and no id that has been
\* removed from the table is stored again.
C20_UpdateOfDeletedRowIs404 ==
  [][/\ \A r \in Req :
          ( /\ req[r].op = "update" /\ req[r].pc = "apply"
            /\ req[r].userId \notin DOMAIN db
            /\ req'[r] # req[r] )
          => /\ req'[r].pc = "done" /\ req'[r].status = 404
             /\ req'[r].message = "User not found"
             /\ req'[r].error = <<"USER_NOT_FOUND">>
             /\ db' = db
     /\ \A id \in DOMAIN db' : id \in DOMAIN db \/ id >= nextId]_vars

\* C20 at work: a delete of row 1 went through after an update had read the
\* row; the update has sent its UPDATE and was answered 404, and no row 1
\* is stored.
C20_Witness ==
  \E r1, r2 \in Req :
    /\ req[r1].op = "update" /\ req[r1].pc = "done" /\ req[r1].status = 404
    /\ req[r1].userId = 1 /\ IssuedUpdate(req[r1])
    /\ req[r2].op = "delete" /\ req[r2].pc = "done" /\ req[r2].status = 200
    /\ req[r2].userId = 1
    /\ 1 \notin DOMAIN db

\* C21 as claimed: in every list response (page - 1) * limit plus the
\* number of records does not exceed total, and a response with total 0 has
\* no records, whatever was written between its two queries.
C21_ListInternallyConsistent ==
  \A r \in Req :
    ListAnswered(r) =>
      LET pg == req[r].pagination
      IN  /\ (pg.page - 1) * pg.limit + Len(req[r].users) <= pg.total
          /\ pg.total = 0 => req[r].users = <<>>

\* The step in which the page query of list r is answered
ListPageRuns(r) ==
  /\ req[r].op = "list" /\ req[r].pc = "page"
  /\ req'[r].pc = "done" /\ req'[r].status = 200

\* C21 as it holds: when no row has come to match the filter between the
\* count query and the page query (rows may have been deleted or changed
\* otherwise), a list response that holds records has (page - 1) * limit
\* plus their number at most total, a response with total 0 has no records,
\* and a page that starts at or after total has none.
C21_ConsistentUnlessARowComesToMatch ==
  [][\A r \in Req :
       LET conds == WhereConditions(QueryParams(req[r].query))
           pg    == req'[r].pagination
           us    == req'[r].users
       IN  ( /\ ListPageRuns(r)
             /\ Selected(db, conds) \subseteq Selected(req[r].lp.snapshot, conds) )
           => /\ us # <<>> => (pg.page - 1) * pg.limit + Len(us) <= pg.total
              /\ pg.total = 0 => us = <<>>
              /\ (pg.page - 1) * pg.limit >= pg.total => us = <<>>]_vars

\* C21 at work: a row was deleted between the two queries of a list without
\* a filter, which counted three rows and returns the two that are left.
C21_Witness ==
  \E r \in Req :
    /\ ListAnswered(r) /\ ~req[r].lp.quiet
    /\ req[r].query.name = Undefined
    /\ req[r].pagination.total = 3 /\ req[r].pagination.page = 1
    /\ req[r].pagination.limit = 10
    /\ Len(req[r].users) = 2
    /\ Cardinality(DOMAIN db) = 2

=============================================================================
